---- MODULE Spec2Model ----
(***************************************************************************)
(* Model of src/weather_server.py: the API-key middleware, the per-request *)
(* context variable and the two metered tools get_alerts / get_forecast.   *)
(* Every step between two awaits of the asyncio event loop is one action.  *)
(***************************************************************************)
EXTENDS Integers, Sequences, FiniteSets, TLC

(* ---------------------------------------------------------------- bounds *)
NumReqs == 2        \* inbound calls that can be in flight together
MaxFeatures == 2    \* longest "features" list the data provider returns
MaxPeriods == 8     \* longest "periods" list the data provider returns

Reqs == 1..NumReqs

(* ------------------------------------------------------------- constants *)
NWS_API_BASE == "https://api.weather.gov"
ALERT_COST_CENTS == 2

(* Variant of FORECAST_COST_CENTS: the forecast priced as an alert check. *)
ForecastCostAsAlert == ALERT_COST_CENTS

FORECAST_COST_CENTS == 3
PeriodLimit == 5

(* Python's None, as a value distinct from every header string. *)
None == "<None>"

(* Truthiness of an Optional[str]: None and "" are falsy. *)
Truthy(s) == s # None /\ s # ""

(* ------------------------------------------------------------ inputs *)
(* request.headers.get("X-AGENTPAY-API-KEY"): absent, empty, or a key. *)
Headers == {None, "", "key-A", "key-B"}

(* agentpay_client.validate_api_key: returns a result or raises. *)
ValidateOutcomes ==
    { [kind |-> "returns", is_valid |-> TRUE,  invalid_reason |-> "None"],
      [kind |-> "returns", is_valid |-> FALSE, invalid_reason |-> "key_not_found"],
      [kind |-> "raises",  is_valid |-> FALSE, invalid_reason |-> "None"],
      [kind |-> "hangs",   is_valid |-> FALSE, invalid_reason |-> "None"] }

(* A validate_api_key call that has not come back yet. *)
ValidatePending == [kind |-> "pending", is_valid |-> FALSE, invalid_reason |-> "None"]

(* agentpay_client.consume: returns a result or raises. *)
ConsumeOutcomes ==
    { [kind |-> "returns", success |-> TRUE,  error_message |-> "None"],
      [kind |-> "returns", success |-> FALSE, error_message |-> "Insufficient balance"],
      [kind |-> "raises",  success |-> FALSE, error_message |-> "None"],
      [kind |-> "hangs",   success |-> FALSE, error_message |-> "None"] }

(* A consume call that has not come back yet. *)
ConsumePending == [kind |-> "pending", success |-> FALSE, error_message |-> "None"]

(* ------------------------------------------------------------ state *)
VARIABLES
    pc,           \* position of each inbound call
    hdr,          \* the credential header each call carried
    ctx,          \* api_key_context: value held in each context slot
    token,        \* the old value kept by the token of api_key_context.set
    tool,         \* the tool the call invoked
    arg,          \* the argument the tool was invoked with
    result,       \* what the tool returned or raised
    response,     \* what dispatch returned
    validateLog,  \* validate_api_key calls made for each inbound call
    consumeLog,   \* consume calls made for each inbound call
    fetchLog,     \* make_nws_request calls made for each inbound call
    nextId        \* number of uuid4() values drawn so far

vars == <<pc, hdr, ctx, token, tool, arg, result, response,
          validateLog, consumeLog, fetchLog, nextId>>

NoResult == [kind |-> "none", text |-> ""]
Text(s) == [kind |-> "text", text |-> s]
Raised(e) == [kind |-> "raised", text |-> e]

NoResponse == [status |-> 0, error |-> "", message |-> ""]

(* Variant of CtxSlot: one process-wide slot instead of a ContextVar. *)
CtxSlotShared(r) == 1

(* api_key_context is a ContextVar: each inbound call runs in its own task, *)
(* and a task's context is its own slot.                                    *)
CtxSlot(r) == r

Init ==
    /\ pc = [r \in Reqs |-> "new"]
    /\ hdr = [r \in Reqs |-> None]
    /\ ctx = [s \in Reqs |-> None]
    /\ token = [r \in Reqs |-> None]
    /\ tool = [r \in Reqs |-> ""]
    /\ arg = [r \in Reqs |-> ""]
    /\ result = [r \in Reqs |-> NoResult]
    /\ response = [r \in Reqs |-> NoResponse]
    /\ validateLog = [r \in Reqs |-> <<>>]
    /\ consumeLog = [r \in Reqs |-> <<>>]
    /\ fetchLog = [r \in Reqs |-> <<>>]
    /\ nextId = 0

(* ------------------------------------------------- data-provider documents *)
(* make_nws_request returns Optional[Dict]: None, or a parsed JSON object.   *)
(* A JSON object is a function from its keys to its values.                  *)
NoneDoc == [some |-> FALSE, val |-> [k \in {} |-> 0]]
Dict(d) == [some |-> TRUE, val |-> d]
EmptyDict == [k \in {} |-> 0]

(* Python's "not data" for an Optional[Dict]: None and {} are falsy. *)
Falsy(data) == ~data.some \/ DOMAIN data.val = {}

(* dict.get(key, default) *)
Get(d, key, default) == IF key \in DOMAIN d THEN d[key] ELSE default

SeqsUpTo(S, n) == UNION { [1..k -> S] : k \in 0..n }

(* One entry of an alerts "features" list. *)
EntryKinds == {"full", "nodesc", "bare", "noprops"}
AlertProps(kind) ==
    CASE kind = "full"   -> [event |-> "Flood Warning", areaDesc |-> "County X",
                             severity |-> "Severe", description |-> "Rising water"]
      [] kind = "nodesc" -> [event |-> "Flood Warning", areaDesc |-> "County X",
                             severity |-> "Severe"]
      [] OTHER           -> EmptyDict
Feature(kind) ==
    IF kind = "noprops" THEN [id |-> "urn:alert"]
    ELSE [id |-> "urn:alert", properties |-> AlertProps(kind)]

(* The alerts documents the provider can answer with. *)
AlertShapes ==
    { [tag |-> t, entries |-> <<>>] : t \in {"none", "empty", "nofeatures"} }
    \cup { [tag |-> "features", entries |-> e] : e \in SeqsUpTo(EntryKinds, MaxFeatures) }
AlertsDoc(shape) ==
    CASE shape.tag = "none"       -> NoneDoc
      [] shape.tag = "empty"      -> Dict(EmptyDict)
      [] shape.tag = "nofeatures" -> Dict([title |-> "alerts"])
      [] OTHER -> Dict([features |->
                         [i \in 1..Len(shape.entries) |-> Feature(shape.entries[i])]])

(* The answers to the points lookup. *)
PointsShapes == {"none", "empty", "noprops", "noforecast", "ok"}
ForecastUrlOf(url) == url \o "/forecast"
PointsDoc(shape, url) ==
    CASE shape = "none"       -> NoneDoc
      [] shape = "empty"      -> Dict(EmptyDict)
      [] shape = "noprops"    -> Dict([id |-> url])
      [] shape = "noforecast" -> Dict([properties |-> [gridId |-> "TOP"]])
      [] OTHER -> Dict([properties |-> [forecast |-> ForecastUrlOf(url)]])

(* One forecast period; period number bad lacks the key field. *)
PeriodFields == {"name", "temperature", "temperatureUnit", "windSpeed",
                 "windDirection", "detailedForecast"}
FullPeriod(i) ==
    [name |-> "Period " \o ToString(i), temperature |-> 60 + i,
     temperatureUnit |-> "F", windSpeed |-> ToString(5 + i) \o " mph",
     windDirection |-> "SW", detailedForecast |-> "Sunny " \o ToString(i)]
Period(i, bad, field) ==
    IF i = bad
    THEN [k \in PeriodFields \ {field} |-> FullPeriod(i)[k]]
    ELSE FullPeriod(i)

(* The answers to the forecast fetch. *)
ForecastShapes ==
    { [tag |-> t, n |-> 0, bad |-> 0, field |-> "name"] :
        t \in {"none", "empty", "noprops", "noperiods"} }
    \cup { [tag |-> "periods", n |-> n, bad |-> 0, field |-> "name"] : n \in 0..MaxPeriods }
    \cup UNION { { [tag |-> "periods", n |-> n, bad |-> b, field |-> f] :
                      b \in 1..n, f \in PeriodFields } : n \in 1..MaxPeriods }
ForecastDoc(shape) ==
    CASE shape.tag = "none"      -> NoneDoc
      [] shape.tag = "empty"     -> Dict(EmptyDict)
      [] shape.tag = "noprops"   -> Dict([type |-> "Feature"])
      [] shape.tag = "noperiods" -> Dict([properties |-> [units |-> "us"]])
      [] OTHER -> Dict([properties |-> [periods |->
                    [i \in 1..shape.n |-> Period(i, shape.bad, shape.field)]]])

(* ------------------------------------------------------------ formatting *)
RECURSIVE Join(_, _)
(* sep.join(blocks) *)
Join(blocks, sep) ==
    IF Len(blocks) = 0 THEN ""
    ELSE IF Len(blocks) = 1 THEN blocks[1]
    ELSE blocks[1] \o sep \o Join(Tail(blocks), sep)

Separator == "\n---\n"

(* The f-string of one alert, from its properties. *)
AlertBlock(props) ==
    "\nEvent: " \o Get(props, "event", "Unknown")
    \o "\nArea: " \o Get(props, "areaDesc", "Unknown")
    \o "\nSeverity: " \o Get(props, "severity", "Unknown")
    \o "\nDescription: " \o Get(props, "description", "No description available")
    \o "\n"

(* Variant of NoAlerts that also takes an empty "features" list. *)
NoAlertsOrEmpty(data) ==
    \/ Falsy(data) \/ "features" \notin DOMAIN data.val
    \/ Len(data.val["features"]) = 0

(* get_alerts' test for "no alert collection". *)
NoAlerts(data) == Falsy(data) \/ "features" \notin DOMAIN data.val

(* get_alerts from the answer of the fetch to its return. *)
AlertsBody(data) ==
    IF NoAlerts(data)
    THEN Text("No active alerts for this state.")
    ELSE LET features == data.val["features"]
         IN IF \E i \in 1..Len(features) : "properties" \notin DOMAIN features[i]
            THEN Raised("KeyError")
            ELSE Text(Join([i \in 1..Len(features) |->
                              AlertBlock(features[i]["properties"])], Separator))

(* Variant of FirstPeriods without the slice. *)
FirstPeriodsAll(periods) == periods

(* periods[:5] *)
FirstPeriods(periods) == SubSeq(periods, 1, IF Len(periods) < PeriodLimit
                                            THEN Len(periods) ELSE PeriodLimit)

(* The f-string of one forecast period. *)
PeriodBlock(period) ==
    "\n" \o period["name"] \o ":"
    \o "\nTemperature: " \o ToString(period["temperature"]) \o "°"
    \o period["temperatureUnit"]
    \o "\nWind: " \o period["windSpeed"] \o " " \o period["windDirection"]
    \o "\nForecast: " \o period["detailedForecast"]
    \o "\n"

(* get_forecast from the answer of the forecast fetch to its return. *)
ForecastBody(data) ==
    IF Falsy(data) \/ "properties" \notin DOMAIN data.val
    THEN Text("Error: Unable to fetch detailed forecast.")
    ELSE IF "periods" \notin DOMAIN data.val["properties"]
    THEN Raised("KeyError")
    ELSE LET shown == FirstPeriods(data.val["properties"]["periods"])
         IN IF \E i \in 1..Len(shown) : ~(PeriodFields \subseteq DOMAIN shown[i])
            THEN Raised("KeyError")
            ELSE Text(Join([i \in 1..Len(shown) |-> PeriodBlock(shown[i])], Separator))


(* ------------------------------------------------------------ middleware *)
UnauthorizedResponse(reason) ==
    [status |-> 401, error |-> "Unauthorized",
     message |-> "Invalid API Key: " \o reason]

ValidationFailedResponse ==
    [status |-> 500, error |-> "Internal Server Error",
     message |-> "API Key validation failed"]

(* Variants of ShortCircuit with a branch of dispatch lost. *)
ShortCircuitInvalidPasses(api_key, v) ==
    IF ~Truthy(api_key) THEN NoResponse
    ELSE IF v.kind = "raises" THEN ValidationFailedResponse
    ELSE NoResponse
ShortCircuitUncaught(api_key, v) ==
    IF ~Truthy(api_key) THEN NoResponse
    ELSE IF v.kind = "raises" THEN NoResponse
    ELSE IF ~v.is_valid THEN UnauthorizedResponse(v.invalid_reason)
    ELSE NoResponse
ShortCircuitOff(api_key, v) == NoResponse

(* What dispatch does with the header and the answer of validate_api_key:  *)
(* the response it returns at once, or NoResponse when it goes on to bind. *)
ShortCircuit(api_key, v) ==
    IF ~Truthy(api_key) THEN NoResponse
    ELSE IF v.kind = "raises" THEN ValidationFailedResponse
    ELSE IF ~v.is_valid THEN UnauthorizedResponse(v.invalid_reason)
    ELSE NoResponse

(* validate_api_key and consume are called without await: while a call is *)
(* inside one of them the event loop runs no other call.                  *)
InBilling(r) == pc[r] \in {"in_validate", "in_consume", "hung"}
Runs(r) == \A other \in Reqs \ {r} : ~InBilling(other)

(* Variants of NeedsValidation: every header validated; "" validated. *)
NeedsValidationAlways(api_key) == TRUE
NeedsValidationIfPresent(api_key) == api_key # None

(* "if api_key:" - only a truthy header is validated. *)
NeedsValidation(api_key) == Truthy(api_key)

(* The outcome of the validate_api_key call that was in progress. *)
ValidateAnswered(log, v) == [log EXCEPT ![Len(log)].outcome = v]

(* ApiKeyMiddleware.dispatch up to the call of validate_api_key or, for a *)
(* falsy header, up to "await call_next(request)".                        *)
Dispatch(r) ==
    /\ pc[r] = "new"
    /\ Runs(r)
    /\ \E api_key \in Headers :
         /\ hdr' = [hdr EXCEPT ![r] = api_key]
         /\ IF NeedsValidation(api_key)
            THEN /\ validateLog' = [validateLog EXCEPT ![r] =
                        Append(@, [api_key |-> api_key, outcome |-> ValidatePending])]
                 /\ pc' = [pc EXCEPT ![r] = "in_validate"]
                 /\ UNCHANGED <<ctx, token>>
            ELSE /\ token' = [token EXCEPT ![r] = ctx[CtxSlot(r)]]
                 /\ ctx' = [ctx EXCEPT ![CtxSlot(r)] = api_key]
                 /\ pc' = [pc EXCEPT ![r] = "call_next"]
                 /\ UNCHANGED validateLog
    /\ UNCHANGED <<tool, arg, result, response, consumeLog, fetchLog, nextId>>

(* ApiKeyMiddleware.dispatch from the end of validate_api_key up to       *)
(* "await call_next(request)".                                            *)
Validated(r) ==
    /\ pc[r] = "in_validate"
    /\ Runs(r)
    /\ \E v \in ValidateOutcomes :
         /\ validateLog' = [validateLog EXCEPT ![r] = ValidateAnswered(@, v)]
         /\ IF v.kind = "hangs"
            THEN /\ pc' = [pc EXCEPT ![r] = "hung"]
                 /\ UNCHANGED <<ctx, token, response>>
            ELSE IF ShortCircuit(hdr[r], v) # NoResponse
            THEN /\ response' = [response EXCEPT ![r] = ShortCircuit(hdr[r], v)]
                 /\ pc' = [pc EXCEPT ![r] = "rejected"]
                 /\ UNCHANGED <<ctx, token>>
            ELSE /\ token' = [token EXCEPT ![r] = ctx[CtxSlot(r)]]
                 /\ ctx' = [ctx EXCEPT ![CtxSlot(r)] = hdr[r]]
                 /\ pc' = [pc EXCEPT ![r] = "call_next"]
                 /\ UNCHANGED response
    /\ UNCHANGED <<hdr, tool, arg, result, consumeLog, fetchLog, nextId>>

(* Variant of ContextAfter that resets only when call_next returned. *)
ContextAfterNoFinally(c, slot, old, raised) ==
    IF raised THEN c ELSE [c EXCEPT ![slot] = old]

(* The context after call_next ended: the finally clause resets the token. *)
ContextAfter(c, slot, old, raised) == [c EXCEPT ![slot] = old]

(* ApiKeyMiddleware.dispatch from the end of call_next on. *)
Finish(r) ==
    /\ pc[r] \in {"op_done", "op_raised"}
    /\ Runs(r)
    /\ ctx' = ContextAfter(ctx, CtxSlot(r), token[r], pc[r] = "op_raised")
    /\ IF pc[r] = "op_done"
       THEN /\ response' = [response EXCEPT ![r] =
                   [status |-> 200, error |-> "", message |-> result[r].text]]
            /\ pc' = [pc EXCEPT ![r] = "done"]
       ELSE /\ pc' = [pc EXCEPT ![r] = "failed"]
            /\ UNCHANGED response
    /\ UNCHANGED <<hdr, token, tool, arg, result, validateLog, consumeLog, fetchLog,
                   nextId>>

(* ------------------------------------------------------------ the tools *)
(* Variant of Uuid4 that hands out one identifier to every call. *)
Uuid4Fixed(n) == "uuid-0"

(* str(uuid.uuid4()) of the n-th draw: a value no earlier draw produced. *)
Uuid4(n) == "uuid-" \o ToString(n)

(* Variant of ConsumeCall that issues the call a second time. *)
ConsumeCallRetried(log, api_key, amount, usage_id, c) ==
    LET call == [api_key |-> api_key, amount_cents |-> amount,
                 usage_event_id |-> usage_id, outcome |-> c]
    IN Append(Append(log, call), call)

(* One agentpay_client.consume call, as the billing service sees it. *)
ConsumeCall(log, api_key, amount, usage_id, c) ==
    Append(log, [api_key |-> api_key, amount_cents |-> amount,
                 usage_event_id |-> usage_id, outcome |-> c])

(* Variant of AfterConsume that does not look at result.success. *)
AfterConsumeUnchecked(c) ==
    IF c.kind = "raises" THEN Raised("Exception") ELSE NoResult

(* What a tool does once consume answered: raise, return the error, go on. *)
AfterConsume(c) ==
    IF c.kind = "raises" THEN Raised("Exception")
    ELSE IF ~c.success THEN Text("Error: " \o c.error_message)
    ELSE NoResult

(* The outcome of the consume call that was in progress. *)
ConsumeAnswered(log, c) == [log EXCEPT ![Len(log)].outcome = c]

(* One make_nws_request call: its url, whether it was answered by None   *)
(* ("absent") or by a parsed document, and the answer.                   *)
Request(url) == [url |-> url, answer |-> "pending", data |-> NoneDoc]
Answered(log, data) ==
    [log EXCEPT ![Len(log)].answer = IF data.some THEN "document" ELSE "absent",
                ![Len(log)].data = data]

(* The arguments the RPC front end passes. *)
StateCodes == {"", "C", "CA", "ZZ", "CAL"}
Coordinates == {<<39, -98>>}
FloatStr(n) == ToString(n) \o ".0"

AlertsUrl(state) == NWS_API_BASE \o "/alerts/active/area/" \o state
PointsUrl(where) == NWS_API_BASE \o "/points/" \o where
CoordinateStr(latitude, longitude) == FloatStr(latitude) \o "," \o FloatStr(longitude)

(* Variants of BadState: the length check lost; a list of known codes. *)
BadStateEmptyOnly(state) == ~Truthy(state)
BadStateKnownCodes(state) == state \notin {"CA", "NY"}

(* get_alerts' check of its argument. *)
BadState(state) == ~Truthy(state) \/ Len(state) # 2

(* Variant of NoPoints that takes every answer as usable. *)
NoPointsNever(data) == FALSE

(* get_forecast's test for a failed points lookup. *)
NoPoints(data) == Falsy(data) \/ "properties" \notin DOMAIN data.val

(* A tool up to its call of consume: the credential is read from the     *)
(* context, and a usage event id is drawn when there is one.             *)
ToolStart(r, name, argument, amount) ==
    /\ Runs(r)
    /\ tool' = [tool EXCEPT ![r] = name]
    /\ arg' = [arg EXCEPT ![r] = argument]
    /\ LET api_key == ctx[CtxSlot(r)]
       IN IF ~Truthy(api_key)
          THEN /\ result' = [result EXCEPT ![r] = Text("Error: API Key missing")]
               /\ pc' = [pc EXCEPT ![r] = "op_done"]
               /\ UNCHANGED <<consumeLog, nextId>>
          ELSE /\ nextId' = nextId + 1
               /\ consumeLog' = [consumeLog EXCEPT ![r] =
                      ConsumeCall(@, api_key, amount, Uuid4(nextId), ConsumePending)]
               /\ pc' = [pc EXCEPT ![r] = "in_consume"]
               /\ UNCHANGED result
    /\ UNCHANGED <<hdr, ctx, token, response, validateLog, fetchLog>>

(* get_alerts up to its call of consume. *)
GetAlertsStart(r, states) ==
    /\ pc[r] = "call_next"
    /\ \E state \in states : ToolStart(r, "get_alerts", state, ALERT_COST_CENTS)

(* get_forecast up to its call of consume. *)
GetForecastStart(r) ==
    /\ pc[r] = "call_next"
    /\ \E where \in Coordinates :
          ToolStart(r, "get_forecast", CoordinateStr(where[1], where[2]),
                    FORECAST_COST_CENTS)

(* get_alerts from the end of consume up to "await make_nws_request(url)". *)
GetAlertsCharged(r) ==
    /\ pc[r] = "in_consume" /\ tool[r] = "get_alerts"
    /\ Runs(r)
    /\ \E c \in ConsumeOutcomes :
         /\ consumeLog' = [consumeLog EXCEPT ![r] = ConsumeAnswered(@, c)]
         /\ IF c.kind = "hangs"
            THEN /\ pc' = [pc EXCEPT ![r] = "hung"]
                 /\ UNCHANGED <<result, fetchLog>>
            ELSE IF AfterConsume(c) # NoResult
            THEN /\ result' = [result EXCEPT ![r] = AfterConsume(c)]
                 /\ pc' = [pc EXCEPT ![r] =
                        IF AfterConsume(c).kind = "raised" THEN "op_raised" ELSE "op_done"]
                 /\ UNCHANGED fetchLog
            ELSE IF BadState(arg[r])
            THEN /\ result' = [result EXCEPT ![r] = Text(
                        "Error: Please provide a valid two-letter US state code.")]
                 /\ pc' = [pc EXCEPT ![r] = "op_done"]
                 /\ UNCHANGED fetchLog
            ELSE /\ fetchLog' = [fetchLog EXCEPT ![r] =
                        Append(@, Request(AlertsUrl(arg[r])))]
                 /\ pc' = [pc EXCEPT ![r] = "await_alerts"]
                 /\ UNCHANGED result
    /\ UNCHANGED <<hdr, ctx, token, tool, arg, response, validateLog, nextId>>

(* get_alerts from the answer of make_nws_request to its return. *)
GetAlertsResume(r, shapes) ==
    /\ pc[r] = "await_alerts"
    /\ Runs(r)
    /\ \E shape \in shapes :
         LET data == AlertsDoc(shape)
             out == AlertsBody(data)
         IN /\ fetchLog' = [fetchLog EXCEPT ![r] = Answered(@, data)]
            /\ result' = [result EXCEPT ![r] = out]
            /\ pc' = [pc EXCEPT ![r] =
                   IF out.kind = "raised" THEN "op_raised" ELSE "op_done"]
    /\ UNCHANGED <<hdr, ctx, token, tool, arg, response, validateLog, consumeLog,
                   nextId>>

(* get_forecast from the end of consume up to the first                  *)
(* "await make_nws_request(points_url)".                                 *)
GetForecastCharged(r) ==
    /\ pc[r] = "in_consume" /\ tool[r] = "get_forecast"
    /\ Runs(r)
    /\ \E c \in ConsumeOutcomes :
         /\ consumeLog' = [consumeLog EXCEPT ![r] = ConsumeAnswered(@, c)]
         /\ IF c.kind = "hangs"
            THEN /\ pc' = [pc EXCEPT ![r] = "hung"]
                 /\ UNCHANGED <<result, fetchLog>>
            ELSE IF AfterConsume(c) # NoResult
            THEN /\ result' = [result EXCEPT ![r] = AfterConsume(c)]
                 /\ pc' = [pc EXCEPT ![r] =
                        IF AfterConsume(c).kind = "raised" THEN "op_raised" ELSE "op_done"]
                 /\ UNCHANGED fetchLog
            ELSE /\ fetchLog' = [fetchLog EXCEPT ![r] =
                        Append(@, Request(PointsUrl(arg[r])))]
                 /\ pc' = [pc EXCEPT ![r] = "await_points"]
                 /\ UNCHANGED result
    /\ UNCHANGED <<hdr, ctx, token, tool, arg, response, validateLog, nextId>>

(* get_forecast from the answer of the points lookup to the second await. *)
GetForecastPoints(r, shapes) ==
    /\ pc[r] = "await_points"
    /\ Runs(r)
    /\ \E shape \in shapes :
         LET points_data == PointsDoc(shape, fetchLog[r][1].url)
         IN IF NoPoints(points_data)
            THEN /\ result' = [result EXCEPT ![r] = Text(
                        "Error: Unable to fetch forecast data for this location.")]
                 /\ pc' = [pc EXCEPT ![r] = "op_done"]
                 /\ fetchLog' = [fetchLog EXCEPT ![r] = Answered(@, points_data)]
            ELSE IF \/ "properties" \notin DOMAIN points_data.val
                    \/ "forecast" \notin DOMAIN points_data.val["properties"]
            THEN /\ result' = [result EXCEPT ![r] = Raised("KeyError")]
                 /\ pc' = [pc EXCEPT ![r] = "op_raised"]
                 /\ fetchLog' = [fetchLog EXCEPT ![r] = Answered(@, points_data)]
            ELSE /\ fetchLog' = [fetchLog EXCEPT ![r] =
                        Append(Answered(@, points_data),
                               Request(points_data.val["properties"]["forecast"]))]
                 /\ pc' = [pc EXCEPT ![r] = "await_forecast"]
                 /\ UNCHANGED result
    /\ UNCHANGED <<hdr, ctx, token, tool, arg, response, validateLog, consumeLog,
                   nextId>>

(* get_forecast from the answer of the forecast fetch to its return. *)
GetForecastResume(r, shapes) ==
    /\ pc[r] = "await_forecast"
    /\ Runs(r)
    /\ \E shape \in shapes :
         LET data == ForecastDoc(shape)
             out == ForecastBody(data)
         IN /\ fetchLog' = [fetchLog EXCEPT ![r] = Answered(@, data)]
            /\ result' = [result EXCEPT ![r] = out]
            /\ pc' = [pc EXCEPT ![r] =
                   IF out.kind = "raised" THEN "op_raised" ELSE "op_done"]
    /\ UNCHANGED <<hdr, ctx, token, tool, arg, response, validateLog, consumeLog,
                   nextId>>

(* ------------------------------------------------------ specifications *)
(* Concurrent calls; the provider's answers are one of each kind. *)
SomeStates == {"C", "CA"}
SomeAlertShapes ==
    { [tag |-> "none", entries |-> <<>>], [tag |-> "features", entries |-> <<"full">>] }
SomePointsShapes == {"none", "ok"}
SomeForecastShapes ==
    { [tag |-> "none", n |-> 0, bad |-> 0, field |-> "name"],
      [tag |-> "periods", n |-> 1, bad |-> 0, field |-> "name"] }

(* The steps of one inbound call. *)
Step(r) ==
    \/ Dispatch(r)
    \/ Validated(r)
    \/ GetAlertsStart(r, SomeStates)
    \/ GetAlertsCharged(r)
    \/ GetAlertsResume(r, SomeAlertShapes)
    \/ GetForecastStart(r)
    \/ GetForecastCharged(r)
    \/ GetForecastPoints(r, SomePointsShapes)
    \/ GetForecastResume(r, SomeForecastShapes)
    \/ Finish(r)

Next == \E r \in Reqs : Step(r)

Spec == Init /\ [][Next]_vars

(* The event loop runs every ready task, and every fetch is answered      *)
(* within its timeout.                                                    *)
FairSpec == Spec /\ \A r \in Reqs : WF_vars(Step(r))

(* One call at a time; every argument and every answer of the provider. *)
NextData ==
    \/ Dispatch(1)
    \/ Validated(1)
    \/ GetAlertsStart(1, StateCodes)
    \/ GetAlertsCharged(1)
    \/ GetAlertsResume(1, AlertShapes)
    \/ GetForecastStart(1)
    \/ GetForecastCharged(1)
    \/ GetForecastPoints(1, PointsShapes)
    \/ GetForecastResume(1, ForecastShapes)
    \/ Finish(1)

SpecData == Init /\ [][NextData]_vars

(* ------------------------------------------------------------ properties *)
Succeeded(e) == e.outcome.kind = "returns" /\ e.outcome.success
(* The usage events the billing service recorded for call r. *)
UsageEvents(r) == SelectSeq(consumeLog[r], Succeeded)
Returned(r) == pc[r] \in {"op_done", "done"}
Ended(r) == pc[r] \in {"op_done", "op_raised", "done", "failed"}
AnsweredAbsent(r) == \E i \in 1..Len(fetchLog[r]) : fetchLog[r][i].answer = "absent"

(* C1: whatever the interleaving, a tool that ran for a call carrying a    *)
(* credential passed exactly that credential to consume, and a tool that   *)
(* ran for a call without credential passed none.                          *)
C1_OwnCredential ==
    \A r \in Reqs :
        /\ \A i \in 1..Len(consumeLog[r]) : consumeLog[r][i].api_key = hdr[r]
        /\ tool[r] # "" => (Truthy(hdr[r]) <=> consumeLog[r] # <<>>)

(* Two calls with distinct credentials are in flight together and both     *)
(* have been metered.                                                      *)
C1_Witness ==
    \E r1, r2 \in Reqs :
        /\ Truthy(hdr[r1]) /\ Truthy(hdr[r2]) /\ hdr[r1] # hdr[r2]
        /\ pc[r1] = "await_alerts" /\ pc[r2] = "await_points"
        /\ consumeLog[r1] # <<>> /\ consumeLog[r2] # <<>>

(* C2: a call whose credential validate_api_key reported invalid is        *)
(* answered 401 Unauthorized with the reason, and neither a tool, a        *)
(* consume nor a fetch happens for it.                                     *)
C2_InvalidRejected ==
    \A r \in Reqs :
        (/\ validateLog[r] # <<>>
         /\ validateLog[r][1].outcome.kind = "returns"
         /\ ~validateLog[r][1].outcome.is_valid)
        => /\ pc[r] = "rejected"
           /\ response[r] = [status |-> 401, error |-> "Unauthorized",
                             message |-> "Invalid API Key: "
                                \o validateLog[r][1].outcome.invalid_reason]
           /\ tool[r] = "" /\ consumeLog[r] = <<>> /\ fetchLog[r] = <<>>

C2_Witness ==
    \E r \in Reqs : /\ pc[r] = "rejected" /\ response[r].status = 401
                    /\ ~validateLog[r][1].outcome.is_valid
                    /\ validateLog[r][1].outcome.kind = "returns"

(* C3: a call whose validate_api_key raised is answered 500 Internal       *)
(* Server Error, not 401, and neither a tool, a consume nor a fetch        *)
(* happens for it.                                                         *)
C3_ValidationFailure ==
    \A r \in Reqs :
        (validateLog[r] # <<>> /\ validateLog[r][1].outcome.kind = "raises")
        => /\ pc[r] = "rejected"
           /\ response[r] = [status |-> 500, error |-> "Internal Server Error",
                             message |-> "API Key validation failed"]
           /\ tool[r] = "" /\ consumeLog[r] = <<>> /\ fetchLog[r] = <<>>

C3_Witness ==
    \E r \in Reqs : /\ pc[r] = "rejected" /\ response[r].status = 500
                    /\ validateLog[r][1].outcome.kind = "raises"

(* C4: a call whose consume did not succeed made no fetch, and a call that *)
(* made a fetch had its consume succeed before.                            *)
C4_ChargeBeforeFetch ==
    \A r \in Reqs :
        /\ (consumeLog[r] # <<>> /\ ~Succeeded(consumeLog[r][1])) => fetchLog[r] = <<>>
        /\ fetchLog[r] # <<>> => (consumeLog[r] # <<>> /\ Succeeded(consumeLog[r][1]))

(* A get_alerts and a get_forecast both returned after a refused consume.  *)
C4_Witness ==
    \E r1, r2 \in Reqs :
        /\ tool[r1] = "get_alerts" /\ tool[r2] = "get_forecast"
        /\ Returned(r1) /\ Returned(r2)
        /\ consumeLog[r1] # <<>> /\ consumeLog[r2] # <<>>
        /\ consumeLog[r1][1].outcome.kind = "returns" /\ ~consumeLog[r1][1].outcome.success
        /\ consumeLog[r2][1].outcome.kind = "returns" /\ ~consumeLog[r2][1].outcome.success
        /\ fetchLog[r1] = <<>> /\ fetchLog[r2] = <<>>

(* C5: when a tool returned after its consume succeeded and one of its     *)
(* fetches was answered by None, exactly one consume call was made for the *)
(* call and exactly one usage event stands recorded.                       *)
C5_ChargeStands ==
    \A r \in Reqs :
        (Returned(r) /\ AnsweredAbsent(r) /\ \E i \in 1..Len(consumeLog[r]) :
                                                Succeeded(consumeLog[r][i]))
        => Len(UsageEvents(r)) = 1 /\ Len(consumeLog[r]) = 1

(* A get_forecast returned after its second fetch was answered by None.    *)
C5_Witness ==
    \E r \in Reqs :
        /\ pc[r] = "done" /\ tool[r] = "get_forecast"
        /\ Len(fetchLog[r]) = 2 /\ fetchLog[r][2].answer = "absent"
        /\ Len(UsageEvents(r)) = 1

(* C6: a call without credential header is not rejected, makes no          *)
(* validate, consume or fetch call, and its tool returns the text          *)
(* "Error: API Key missing".                                                *)
C6_MissingCredential ==
    \A r \in Reqs :
        (pc[r] # "new" /\ hdr[r] = None)
        => /\ pc[r] \in {"call_next", "op_done", "done"}
           /\ response[r].status \in {0, 200}
           /\ validateLog[r] = <<>> /\ consumeLog[r] = <<>> /\ fetchLog[r] = <<>>
           /\ tool[r] # "" => result[r] = [kind |-> "text",
                                           text |-> "Error: API Key missing"]
           /\ pc[r] = "done" => response[r].message = "Error: API Key missing"

C6_Witness ==
    \E r \in Reqs : /\ hdr[r] = None /\ pc[r] = "done"
                    /\ response[r].message = "Error: API Key missing"

(* C7: a tool that reached metering issued exactly one consume call, and   *)
(* no two consume calls of any calls carry the same usage_event_id.        *)
C7_OneFreshConsume ==
    /\ \A r \in Reqs : (tool[r] # "" /\ Truthy(hdr[r])) => Len(consumeLog[r]) = 1
    /\ \A r1, r2 \in Reqs : \A i \in 1..Len(consumeLog[r1]), j \in 1..Len(consumeLog[r2]) :
           consumeLog[r1][i].usage_event_id = consumeLog[r2][j].usage_event_id
           => (r1 = r2 /\ i = j)

(* Two different calls have been metered. *)
C7_Witness ==
    \E r1, r2 \in Reqs : r1 # r2 /\ consumeLog[r1] # <<>> /\ consumeLog[r2] # <<>>

(* C8: once dispatch ended after binding the credential, by return or by   *)
(* exception, the context holds the value it held before the binding.      *)
C8_ContextReset ==
    \A r \in Reqs : pc[r] \in {"done", "failed"}
                    => ctx[CtxSlot(r)] = token[r] /\ ctx[CtxSlot(r)] = None

(* One call ended by an exception of its tool and one by a return, both    *)
(* after a credential was bound.                                           *)
C8_Witness ==
    \E r1, r2 \in Reqs : /\ pc[r1] = "failed" /\ Truthy(hdr[r1])
                         /\ pc[r2] = "done" /\ Truthy(hdr[r2])

(* C9: a consume that reported failure or raised ends the tool with a text *)
(* result, never with an exception.                                        *)
C9_MeteringFailureIsText ==
    \A r \in Reqs :
        (/\ consumeLog[r] # <<>>
         /\ \/ consumeLog[r][1].outcome.kind = "raises"
            \/ /\ consumeLog[r][1].outcome.kind = "returns"
               /\ ~consumeLog[r][1].outcome.success)
        => result[r].kind = "text"

(* C10: whatever document the data provider answers with, a tool that made *)
(* a fetch ends with a text result, never with an exception.               *)
C10_UpstreamErrorsAreText ==
    \A r \in Reqs : (fetchLog[r] # <<>> /\ Ended(r)) => result[r].kind = "text"

ValidationMessage == "Error: Please provide a valid two-letter US state code."
Charged(r) == consumeLog[r] # <<>> /\ Succeeded(consumeLog[r][1])
Refused(r) ==
    /\ consumeLog[r] # <<>>
    /\ consumeLog[r][1].outcome.kind = "returns"
    /\ ~consumeLog[r][1].outcome.success

(* C11 as claimed: get_alerts("ZZ") with a valid credential and a          *)
(* successful consume returns the validation message, makes no fetch and  *)
(* leaves one usage event.                                                 *)
C11_ZZRejected ==
    \A r \in Reqs :
        (tool[r] = "get_alerts" /\ arg[r] = "ZZ" /\ Charged(r))
        => /\ fetchLog[r] = <<>>
           /\ Len(UsageEvents(r)) = 1
           /\ Ended(r) => result[r] = [kind |-> "text", text |-> ValidationMessage]

(* C11 amended: get_alerts("ZZ") with a valid credential and a successful  *)
(* consume passes the length check: it makes exactly one fetch, of the     *)
(* alerts of area ZZ, never returns the validation message, and leaves     *)
(* exactly one usage event.                                                *)
C11_ZZFetched ==
    \A r \in Reqs :
        (tool[r] = "get_alerts" /\ arg[r] = "ZZ" /\ Charged(r))
        => /\ Len(fetchLog[r]) = 1
           /\ fetchLog[r][1].url = "https://api.weather.gov/alerts/active/area/ZZ"
           /\ Len(UsageEvents(r)) = 1 /\ Len(consumeLog[r]) = 1
           /\ result[r].text # ValidationMessage

C11_Witness ==
    \E r \in Reqs : /\ tool[r] = "get_alerts" /\ arg[r] = "ZZ" /\ Charged(r)
                    /\ pc[r] = "done" /\ fetchLog[r][1].answer = "document"

(* C12: get_alerts called with a credential and a region code that is      *)
(* empty or not of length 2 calls consume once with amount 2 and makes no  *)
(* fetch; it returns the validation message when consume succeeded and     *)
(* the consume error when consume reported failure.                        *)
C12_CheckAfterMetering ==
    \A r \in Reqs :
        (tool[r] = "get_alerts" /\ Truthy(hdr[r]) /\ (arg[r] = "" \/ Len(arg[r]) # 2))
        => /\ Len(consumeLog[r]) = 1
           /\ consumeLog[r][1].amount_cents = 2
           /\ fetchLog[r] = <<>>
           /\ Charged(r) => result[r] = [kind |-> "text", text |-> ValidationMessage]
           /\ Refused(r) => result[r] = [kind |-> "text", text |->
                  "Error: " \o consumeLog[r][1].outcome.error_message]

(* Both outcomes happened: the fee was taken for a three-letter code. *)
C12_Witness ==
    \E r \in Reqs : /\ tool[r] = "get_alerts" /\ arg[r] = "CAL" /\ Charged(r)
                    /\ pc[r] = "done" /\ response[r].message = ValidationMessage

(* C13: when the points lookup is answered by None or by a document        *)
(* without "properties", get_forecast returns "Error: Unable to fetch      *)
(* forecast data for this location." and makes no second fetch; a          *)
(* get_forecast makes at most two fetches and a get_alerts at most one.    *)
C13_PointsFailureStops ==
    \A r \in Reqs :
        /\ (/\ tool[r] = "get_forecast" /\ fetchLog[r] # <<>>
            /\ fetchLog[r][1].answer # "pending"
            /\ \/ ~fetchLog[r][1].data.some
               \/ "properties" \notin DOMAIN fetchLog[r][1].data.val)
           => /\ Len(fetchLog[r]) = 1
              /\ result[r] = [kind |-> "text", text |->
                     "Error: Unable to fetch forecast data for this location."]
        /\ tool[r] = "get_forecast" => Len(fetchLog[r]) <= 2
        /\ tool[r] = "get_alerts" => Len(fetchLog[r]) <= 1

C13_Witness ==
    \E r \in Reqs : /\ tool[r] = "get_forecast" /\ pc[r] = "done"
                    /\ Len(fetchLog[r]) = 1 /\ fetchLog[r][1].answer = "absent"

RECURSIVE Requested(_, _)
(* The total amount the consume calls of the calls in S asked for against  *)
(* credential key.                                                         *)
Requested(key, S) ==
    IF S = {} THEN 0
    ELSE LET r == CHOOSE x \in S : TRUE
             mine == SelectSeq(consumeLog[r], LAMBDA e : e.api_key = key)
         IN (IF Len(mine) = 0 THEN 0 ELSE mine[1].amount_cents)
            + Requested(key, S \ {r})
Metered(key, name) ==
    { r \in Reqs : /\ tool[r] = name /\ consumeLog[r] # <<>>
                   /\ consumeLog[r][1].api_key = key }

(* C14: every consume call of get_alerts asks for 2 and every consume call *)
(* of get_forecast for 3, whatever the arguments, credential and outcome;  *)
(* the total asked against a credential is 2 times the get_alerts calls    *)
(* plus 3 times the get_forecast calls that reached metering with it.      *)
C14_FixedPrices ==
    /\ \A r \in Reqs : \A i \in 1..Len(consumeLog[r]) :
           consumeLog[r][i].amount_cents = IF tool[r] = "get_alerts" THEN 2 ELSE 3
    /\ \A key \in Headers :
           Requested(key, Reqs) = 2 * Cardinality(Metered(key, "get_alerts"))
                                  + 3 * Cardinality(Metered(key, "get_forecast"))

(* One credential was metered for a get_alerts and for a get_forecast. *)
C14_Witness ==
    \E key \in Headers : /\ Metered(key, "get_alerts") # {}
                         /\ Metered(key, "get_forecast") # {}
                         /\ Requested(key, Reqs) = 5

(* The text get_forecast gives for the i-th period of the provider. *)
ExpectedPeriod(i) ==
    "\nPeriod " \o ToString(i) \o ":\nTemperature: " \o ToString(60 + i)
    \o "°F\nWind: " \o ToString(5 + i) \o " mph SW\nForecast: Sunny "
    \o ToString(i) \o "\n"
RECURSIVE ExpectedForecast(_, _)
(* The first m periods, in order, with "\n---\n" between two of them. *)
ExpectedForecast(i, m) ==
    IF i > m THEN ""
    ELSE IF i = m THEN ExpectedPeriod(i)
    ELSE ExpectedPeriod(i) \o "\n---\n" \o ExpectedForecast(i + 1, m)
Min(a, b) == IF a < b THEN a ELSE b
ForecastAnswer(r) == fetchLog[r][2].data
HasPeriods(r) ==
    /\ tool[r] = "get_forecast" /\ Len(fetchLog[r]) = 2
    /\ fetchLog[r][2].answer = "document"
    /\ "properties" \in DOMAIN ForecastAnswer(r).val
    /\ "periods" \in DOMAIN ForecastAnswer(r).val["properties"]
PeriodsOf(r) == ForecastAnswer(r).val["properties"]["periods"]

(* C15: when the forecast fetch is answered by n periods of which the      *)
(* first min(n, 5) are complete, get_forecast returns exactly those first  *)
(* min(n, 5) periods, in the provider's order, joined by the separator.    *)
C15_FirstFivePeriods ==
    \A r \in Reqs :
        (/\ HasPeriods(r)
         /\ \A i \in 1..Min(Len(PeriodsOf(r)), 5) : DOMAIN PeriodsOf(r)[i] = PeriodFields)
        => result[r] = [kind |-> "text",
                        text |-> ExpectedForecast(1, Min(Len(PeriodsOf(r)), 5))]

(* Eight periods were answered and the call returned. *)
C15_Witness ==
    \E r \in Reqs : /\ HasPeriods(r) /\ Len(PeriodsOf(r)) = 8 /\ pc[r] = "done"
                    /\ response[r].message = ExpectedForecast(1, 5)

Finished(r) == pc[r] \in {"rejected", "done", "failed"}

(* C16: every inbound call that started eventually finishes with a         *)
(* response or an exception, also when validate_api_key or consume never   *)
(* returns.                                                                *)
C16_EveryCallFinishes ==
    \A r \in Reqs : (pc[r] # "new") ~> Finished(r)

(* C17: a consume call is only ever issued for a credential that           *)
(* validate_api_key reported valid earlier in the same inbound call, and   *)
(* with exactly that credential.                                           *)
C17_ConsumeAfterValid ==
    \A r \in Reqs : \A i \in 1..Len(consumeLog[r]) :
        /\ Len(validateLog[r]) = 1
        /\ validateLog[r][1].outcome.kind = "returns"
        /\ validateLog[r][1].outcome.is_valid
        /\ validateLog[r][1].api_key = consumeLog[r][i].api_key

(* A call was validated, metered and made its fetch. *)
C17_Witness ==
    \E r \in Reqs : /\ consumeLog[r] # <<>> /\ fetchLog[r] # <<>>
                    /\ validateLog[r][1].outcome.is_valid

(* Another call has a step it could take if the event loop ran it. *)
Ready(r) == pc[r] \in {"new", "call_next", "await_alerts", "await_points",
                       "await_forecast", "op_done", "op_raised"}
Waiting(r) == pc[r] \in {"in_validate", "in_consume"}

(* C18 as claimed: while a call is waiting on validate_api_key or on       *)
(* consume, every other call that is ready can take its step.              *)
C18_BillingCallsSuspend ==
    \A r, other \in Reqs :
        (r # other /\ Waiting(r) /\ Ready(other)) => ENABLED Step(other)

(* C19: a call whose credential header is present but empty is treated as  *)
(* one without header: no validate call, the empty value bound, never a    *)
(* 401 or 500, and the tool returns "Error: API Key missing" without any   *)
(* consume or fetch.                                                       *)
C19_EmptyCredential ==
    \A r \in Reqs :
        (pc[r] # "new" /\ hdr[r] = "")
        => /\ pc[r] \in {"call_next", "op_done", "done"}
           /\ response[r].status \in {0, 200}
           /\ validateLog[r] = <<>> /\ consumeLog[r] = <<>> /\ fetchLog[r] = <<>>
           /\ pc[r] \in {"call_next", "op_done"} => ctx[CtxSlot(r)] = ""
           /\ tool[r] # "" => result[r] = [kind |-> "text",
                                           text |-> "Error: API Key missing"]
           /\ pc[r] = "done" => response[r].message = "Error: API Key missing"

C19_Witness ==
    \E r \in Reqs : /\ hdr[r] = "" /\ pc[r] = "done"
                    /\ response[r].message = "Error: API Key missing"

AlertsAnswer(r) == fetchLog[r][1].data
AlertsAnswered(r) ==
    /\ tool[r] = "get_alerts" /\ Len(fetchLog[r]) = 1
    /\ fetchLog[r][1].answer # "pending"
NoAlertsMessage == [kind |-> "text", text |-> "No active alerts for this state."]

(* C20: when the alerts fetch is answered by a document whose "features"   *)
(* list is present and empty, get_alerts returns the empty string; it      *)
(* returns "No active alerts for this state." exactly when the answer is   *)
(* None, an empty document or a document without "features".               *)
C20_EmptyFeatures ==
    \A r \in Reqs :
        AlertsAnswered(r)
        => /\ (/\ "features" \in DOMAIN AlertsAnswer(r).val
               /\ Len(AlertsAnswer(r).val["features"]) = 0)
              => result[r] = [kind |-> "text", text |-> ""]
           /\ result[r] = NoAlertsMessage
              <=> \/ ~AlertsAnswer(r).some
                  \/ DOMAIN AlertsAnswer(r).val = {}
                  \/ "features" \notin DOMAIN AlertsAnswer(r).val

C20_Witness ==
    \E r \in Reqs : /\ AlertsAnswered(r) /\ pc[r] = "done"
                    /\ "features" \in DOMAIN AlertsAnswer(r).val
                    /\ Len(AlertsAnswer(r).val["features"]) = 0
                    /\ response[r].message = ""

====
